---- MODULE Spec2Model ----
(***************************************************************************)
(* A model of seqerakit's orchestration run: parse_all_yaml (merge of the   *)
(* files, ordering, validation, policy resolution, command synthesis,      *)
(* duplicate detection)                                                    *)
(* followed by the dispatch loop of cli.main / BlockParser.handle_block.   *)
(*                                                                         *)
(* A YAML item is an ordered mapping, modelled as a sequence of attributes *)
(* [k, t, s, b, l, d, n]: key, type tag and one payload per type.  Every   *)
(* call the run makes on a collaborator (the SeqeraPlatform client `sp`,   *)
(* the Overwrite reconciler) is appended to the history variable `calls`.  *)
(***************************************************************************)
EXTENDS Integers, Sequences, FiniteSets, TLC

VARIABLES
    file_paths,        \* parse_all_yaml: the documents of the files given, in order
    file_idx,          \* parse_all_yaml: number of files merged so far
    merged_data,       \* parse_all_yaml: the merged document, <<[block, t, s, items]>> in key order
    targets,           \* --targets: the set of block names given, {} when none
    destroy,           \* --delete
    dryrun,            \* --dryrun
    global_on_exists,  \* sp.global_on_exists: NoneStr or a member of OnExists
    overwrite,         \* sp.overwrite, the deprecated global flag
    pc,                \* "merge", "parse", "handle", "done" or "failed"
    p,                 \* parse_all_yaml: number of items parsed so far
    h,                 \* main: number of parsed entries handled so far
    parsed,            \* the entries of cmd_args_dict, flattened in insertion order
    name_values,       \* parse_yaml_block: names seen in the current block
    temp_files,        \* documents written by create_temp_yaml
    calls,             \* history: every call made on a collaborator, in order
    error              \* the exception that ended the run, or NoError

vars == <<file_paths, file_idx, merged_data, targets, destroy, dryrun, global_on_exists, overwrite,
          pc, p, h, parsed, name_values, temp_files, calls, error>>

-----------------------------------------------------------------------------
(* Python values *)

NoneStr == "<None>"
NoError == "<ok>"

Attr(k, t, s, b, l, d, n) == [k |-> k, t |-> t, s |-> s, b |-> b, l |-> l, d |-> d, n |-> n]
S(k, v) == Attr(k, "str", v, FALSE, <<>>, <<>>, 0)
B(k, v) == Attr(k, "bool", "", v, <<>>, <<>>, 0)
L(k, v) == Attr(k, "list", "", FALSE, v, <<>>, 0)
D(k, v) == Attr(k, "dict", "", FALSE, <<>>, v, 0)
I(k, v) == Attr(k, "int", "", FALSE, <<>>, <<>>, v)
N(k)    == Attr(k, "null", "", FALSE, <<>>, <<>>, 0)

Has(item, k) == \E i \in 1..Len(item) : item[i].k = k
\* dict.get(k): the value, or None when the key is absent
Get(item, k) == IF Has(item, k) THEN item[CHOOSE i \in 1..Len(item) : item[i].k = k] ELSE N(k)
Without(item, ks) == SelectSeq(item, LAMBDA a : a.k \notin ks)

RECURSIVE Join(_, _)
Join(l, sep) ==
    IF l = <<>> THEN ""
    ELSE IF Len(l) = 1 THEN l[1]
    ELSE l[1] \o sep \o Join(Tail(l), sep)

Digit(n) == <<"0", "1", "2", "3", "4", "5", "6", "7", "8", "9">>[n + 1]
RECURSIVE IntStr(_)
IntStr(n) == IF n < 10 THEN Digit(n) ELSE IntStr(n \div 10) \o Digit(n % 10)

RECURSIVE DictRepr(_)
DictRepr(d) ==
    IF d = <<>> THEN ""
    ELSE "'" \o d[1].k \o "': '" \o d[1].v \o "'"
         \o (IF Len(d) > 1 THEN ", " ELSE "") \o DictRepr(Tail(d))

\* str(value)
PyStr(a) ==
    CASE a.t = "str"  -> a.s
      [] a.t = "int"  -> IntStr(a.n)
      [] a.t = "bool" -> IF a.b THEN "True" ELSE "False"
      [] a.t = "list" -> "[" \o Join([i \in 1..Len(a.l) |-> "'" \o a.l[i] \o "'"], ", ") \o "]"
      [] a.t = "dict" -> "{" \o DictRepr(a.d) \o "}"
      [] OTHER        -> "None"

\* bool(value)
Truthy(a) ==
    CASE a.t = "str"  -> a.s # ""
      [] a.t = "int"  -> a.n # 0
      [] a.t = "bool" -> a.b
      [] a.t = "list" -> a.l # <<>>
      [] a.t = "dict" -> a.d # <<>>
      [] OTHER        -> FALSE

\* The strings of the input families that contain the substring ".json".
JsonStrings == {"ce.json", "pipe.json"}
\* ".json" in str(v)
ContainsJson(a) == PyStr(a) \in JsonStrings
AnyJson(data) == \E i \in 1..Len(data) : ContainsJson(data[i])

\* str.upper() on the policy spellings of the input families
Upper(s) ==
    CASE s \in {"fail", "Fail", "FAIL"}                -> "FAIL"
      [] s \in {"ignore", "Ignore", "IGNORE"}          -> "IGNORE"
      [] s \in {"overwrite", "Overwrite", "OVERWRITE"} -> "OVERWRITE"
      [] s \in {"skip", "SKIP"}                        -> "SKIP"
      [] OTHER                                         -> s

OnExists == {"FAIL", "IGNORE", "OVERWRITE"}

RECURSIVE Flatten(_)
Flatten(ss) == IF ss = <<>> THEN <<>> ELSE ss[1] \o Flatten(Tail(ss))

RECURSIVE Reverse(_)
Reverse(s) == IF s = <<>> THEN <<>> ELSE Append(Reverse(Tail(s)), s[1])

Range(s) == {s[i] : i \in 1..Len(s)}

-----------------------------------------------------------------------------
(* The Pydantic models: fields in declaration order, by alias *)

Req(k, t) == [k |-> k, t |-> t, req |-> TRUE]
Opt(k, t) == [k |-> k, t |-> t, req |-> FALSE]

Organization ==
    << Req("name", "str"), Req("full-name", "str"), Opt("description", "str"),
       Opt("location", "str"), Opt("website", "str"), Opt("overwrite", "bool") >>

Workspace ==
    << Req("name", "str"), Req("organization", "str"), Req("full-name", "str"),
       Opt("description", "str"), Opt("visibility", "str"), Opt("overwrite", "bool") >>

Team ==
    << Req("name", "str"), Req("organization", "str"), Opt("description", "str"),
       Opt("members", "list"), Opt("overwrite", "bool") >>

Label ==
    << Req("name", "str"), Req("workspace", "str"), Opt("value", "str"),
       Opt("overwrite", "bool") >>

Member ==
    << Req("user", "str"), Req("organization", "str"), Opt("overwrite", "bool") >>

Participant ==
    << Req("name", "str"), Req("type", "str"), Req("workspace", "str"),
       Opt("role", "str"), Opt("overwrite", "bool") >>

Credential ==
    << Req("type", "str"), Req("name", "str"), Opt("workspace", "str"),
       Opt("overwrite", "bool"), Opt("access-key", "str"), Opt("secret-key", "str"),
       Opt("assume-role-arn", "str"), Opt("key", "str"), Opt("batch-key", "str"),
       Opt("batch-name", "str"), Opt("storage-key", "str"), Opt("storage-name", "str"),
       Opt("username", "str"), Opt("password", "str"), Opt("token", "str"),
       Opt("private-key", "str"), Opt("passphrase", "str"), Opt("kubeconfig", "str"),
       Opt("connection-id", "str"), Opt("work-dir", "str"), Opt("registry-server", "str") >>

ComputeEnv ==
    << Req("type", "str"), Req("config-mode", "str"), Req("name", "str"),
       Opt("credentials", "str"), Opt("workspace", "str"), Req("work-dir", "str"),
       Req("region", "str"), Req("max-cpus", "int"), Opt("wave", "bool"),
       Opt("wave-enabled", "bool"), Opt("fusion-v2", "bool"), Opt("fusion2-enabled", "bool"),
       Opt("fast-storage", "bool"), Opt("nvnme-storage-enabled", "bool"),
       Opt("snapshots", "bool"), Opt("fargate", "bool"), Opt("provisioning-model", "str"),
       Opt("instance-types", "list"), Opt("min-cpus", "int"), Opt("no-ebs-auto-scale", "bool"),
       Opt("labels", "str"), Opt("vpc-id", "str"), Opt("subnets", "list"),
       Opt("security-groups", "list"), Opt("allow-buckets", "list"),
       Opt("ebs-blocksize", "int"), Opt("head-job-cpus", "int"),
       Opt("head-job-memory", "int"), Opt("gpu", "bool"), Opt("wait", "str"),
       Opt("preserve-resources", "bool") >>

Secret ==
    << Req("name", "str"), Opt("workspace", "str"), Opt("value", "str"),
       Opt("overwrite", "bool") >>

Action ==
    << Req("type", "str"), Opt("name", "str"), Opt("workspace", "str"),
       Opt("overwrite", "bool"), Opt("pipeline", "str"), Opt("url", "str"),
       Opt("hook-url", "str"), Opt("hook-method", "str"), Opt("endpoint", "str"),
       Opt("event", "str"), Opt("launch", "bool"), Opt("params", "dict") >>

Dataset ==
    << Req("name", "str"), Req("workspace", "str"), Req("file-path", "str"),
       Opt("description", "str"), Opt("header", "bool"), Opt("overwrite", "bool") >>

Pipeline ==
    << Req("name", "str"), Req("url", "str"), Opt("workspace", "str"),
       Opt("description", "str"), Opt("labels", "str"), Opt("compute-env", "str"),
       Opt("work-dir", "str"), Opt("profile", "str"), Opt("params-file", "str"),
       Opt("revision", "str"), Opt("config", "str"), Opt("pre-run", "str"),
       Opt("post-run", "str"), Opt("pull-latest", "bool"), Opt("stub-run", "bool"),
       Opt("main-script", "str"), Opt("entry-name", "str"), Opt("schema-name", "str"),
       Opt("user-secrets", "str"), Opt("workspace-secrets", "str") >>

Launch ==
    << Req("pipeline", "str"), Opt("workspace", "str"), Opt("params-file", "str"),
       Opt("params", "dict"), Opt("compute-env", "str"), Opt("name", "str"),
       Opt("work-dir", "str"), Opt("profile", "str"), Opt("revision", "str"),
       Opt("wait", "str"), Opt("labels", "str"), Opt("launch-container", "str"),
       Opt("config", "str"), Opt("pre-run", "str"), Opt("post-run", "str"),
       Opt("pull-latest", "bool"), Opt("stub-run", "bool"), Opt("main-script", "str"),
       Opt("entry-name", "str"), Opt("schema-name", "str"), Opt("user-secrets", "str"),
       Opt("workspace-secrets", "str"), Opt("disable-optimization", "bool") >>

DataLink ==
    << Req("name", "str"), Req("uri", "str"), Req("provider", "str"),
       Opt("workspace", "str"), Opt("description", "str"), Opt("credentials", "str"),
       Opt("overwrite", "bool") >>

Studio ==
    << Req("name", "str"), Req("compute-env", "str"), Opt("workspace", "str"),
       Opt("description", "str"), Opt("template", "str"), Opt("custom-template", "str"),
       Opt("conda-env-yml", "str"), Opt("gpu", "int"), Opt("cpu", "int"),
       Opt("memory", "int"), Opt("lifespan", "int"), Opt("auto-start", "bool"),
       Opt("private", "bool"), Opt("labels", "str"), Opt("wait", "str"),
       Opt("mount-data-uris", "str"), Opt("mount-data", "str"),
       Opt("mount-data-ids", "str"), Opt("mount-data-resource-refs", "str"),
       Opt("overwrite", "bool") >>

\* helper.MODEL_MAP: block name -> model class
MODEL_MAP(block) ==
    CASE block = "pipelines"     -> Pipeline
      [] block = "compute-envs"  -> ComputeEnv
      [] block = "organizations" -> Organization
      [] block = "workspaces"    -> Workspace
      [] block = "teams"         -> Team
      [] block = "labels"        -> Label
      [] block = "members"       -> Member
      [] block = "participants"  -> Participant
      [] block = "credentials"   -> Credential
      [] block = "datasets"      -> Dataset
      [] block = "secrets"       -> Secret
      [] block = "actions"       -> Action
      [] block = "data-links"    -> DataLink
      [] block = "studios"       -> Studio
      [] block = "launch"        -> Launch

\* helper.COMMAND_BUILDERS: block name -> builder class
COMMAND_BUILDERS(block) ==
    CASE block \in {"credentials", "compute-envs", "actions"} -> "TypeBased"
      [] block = "teams"                                      -> "Teams"
      [] block \in {"pipelines", "launch"}                    -> "Pipeline"
      [] OTHER                                                -> "Generic"

\* model_class(**item): every required field is given with a value of its type,
\* every other declared field is absent, None or of its type; undeclared keys
\* are ignored (extra="ignore").
FieldOk(f, a) == IF f.req THEN a.t = f.t ELSE a.t \in {f.t, "null"}

Validates(block, item) ==
    \A f \in Range(MODEL_MAP(block)) : FieldOk(f, Get(item, f.k))

\* SeqeraResource.input_dict: the declared fields that have a value, in
\* declaration order
Values(item, given) == [i \in 1..Len(given) |-> Get(item, given[i].k)]

input_dict(block, item) ==
    Values(item, SelectSeq(MODEL_MAP(block), LAMBDA f : Get(item, f.k).t # "null"))

-----------------------------------------------------------------------------
(* Command synthesis *)

Command(subcommand, method, args) == [subcommand |-> subcommand, method |-> method, args |-> args]

\* One entry of the history of calls.  op is "sp" (a command executed on the
\* SeqeraPlatform client), "lookup" (the dataset lookup made on the client while
\* parsing), "handle_overwrite" (a call of the reconciler), or "probe" /
\* "delete" (what the reconciler does in turn).
Entry(op, block, rec, sub, method, args, ok, policy, del, found) ==
    [op |-> op, block |-> block, rec |-> rec, sub |-> sub, method |-> method,
     args |-> args, ok |-> ok, on_exists |-> policy, destroy |-> del, found |-> found]

SpCall(block, rec, sub, method, args, ok) ==
    Entry("sp", block, rec, sub, method, args, ok, "", FALSE, FALSE)

Flag(k) == "--" \o k

\* One pass of the loop every to_cli_args and _dict_to_args runs over the
\* attributes: a bool gives a bare flag when true, a list is comma-joined
\* where the loop has a list branch, anything else but None gives --key str(value).
Tokens(a, joinLists) ==
    CASE a.t = "bool"               -> IF a.b THEN <<Flag(a.k)>> ELSE <<>>
      [] a.t = "list" /\ joinLists  -> <<Flag(a.k), Join(a.l, ",")>>
      [] a.t = "null"               -> <<>>
      [] OTHER                      -> <<Flag(a.k), PyStr(a)>>

Options(data, joinLists) == Flatten([i \in 1..Len(data) |-> Tokens(data[i], joinLists)])

\* data.pop(key) for each key present, in the order given
Positionals(data, keys) ==
    LET present == SelectSeq(keys, LAMBDA k : Has(data, k))
    IN  [i \in 1..Len(present) |-> PyStr(Get(data, present[i]))]

\* A variant of to_cli_args: the generic mapping leaves out every falsy value,
\* the empty string and zero as well
to_cli_args_truthy(block, data) ==
    Options(SelectSeq(data, Truthy), TRUE)

\* SeqeraResource.to_cli_args and its overrides in Pipeline, Launch,
\* ComputeEnv and Action
to_cli_args(block, data) ==
    CASE block = "pipelines" ->
            Positionals(data, <<"url">>)
            \o Options(Without(data, {"url", "params", "params-file"}), FALSE)
      [] block = "launch" ->
            Positionals(data, <<"pipeline">>)
            \o Options(Without(data, {"pipeline", "params", "params-file"}), FALSE)
      [] block = "compute-envs" ->
            Positionals(data, <<"type", "config-mode">>)
            \o Options(Without(data, {"type", "config-mode"}), TRUE)
      [] block = "actions" ->
            Positionals(data, <<"type">>)
            \o Options(Without(data, {"type", "params"}), FALSE)
      [] OTHER -> Options(data, TRUE)

\* The result of a dataset lookup that found nothing.
NoUrl == "<no-url>"

DictHas(d, k) == \E i \in 1..Len(d) : d[i].k = k
DictGet(d, k) == d[CHOOSE i \in 1..Len(d) : d[i].k = k].v
DictSet(d, k, v) ==
    IF DictHas(d, k) THEN [i \in 1..Len(d) |-> IF d[i].k = k THEN [k |-> k, v |-> v] ELSE d[i]]
    ELSE Append(d, [k |-> k, v |-> v])
DictDel(d, k) == SelectSeq(d, LAMBDA e : e.k # k)

\* A variant of resolve_dataset_reference: the dataset key is left in place
resolve_dataset_reference_keep(params_dict, workspace, res) ==
    IF params_dict = <<>> \/ ~DictHas(params_dict, "dataset")
    THEN [params |-> params_dict, lookup |-> <<>>, err |-> NoError]
    ELSE LET call == Entry("lookup", "", 0, "datasets", "url",
                           <<"-n", DictGet(params_dict, "dataset"), "-w", workspace>>,
                           res # NoUrl, "", FALSE, FALSE)
         IN  IF res = NoUrl
             THEN [params |-> params_dict, lookup |-> <<call>>, err |-> "DatasetResolutionError"]
             ELSE [params |-> DictSet(params_dict, "input", res),
                   lookup |-> <<call>>, err |-> NoError]

\* A variant of resolve_dataset_reference: a lookup without a URL is let pass
resolve_dataset_reference_lenient(params_dict, workspace, res) ==
    IF params_dict = <<>> \/ ~DictHas(params_dict, "dataset")
    THEN [params |-> params_dict, lookup |-> <<>>, err |-> NoError]
    ELSE LET call == Entry("lookup", "", 0, "datasets", "url",
                           <<"-n", DictGet(params_dict, "dataset"), "-w", workspace>>,
                           res # NoUrl, "", FALSE, FALSE)
         IN  IF res = NoUrl
             THEN [params |-> params_dict, lookup |-> <<call>>, err |-> NoError]
             ELSE [params |-> DictDel(DictSet(params_dict, "input", res), "dataset"),
                   lookup |-> <<call>>, err |-> NoError]

\* helper.resolve_dataset_reference: res is what sp.datasets("url", ...) returns
resolve_dataset_reference(params_dict, workspace, res) ==
    IF params_dict = <<>> \/ ~DictHas(params_dict, "dataset")
    THEN [params |-> params_dict, lookup |-> <<>>, err |-> NoError]
    ELSE LET dataset_name == DictGet(params_dict, "dataset")
             call == Entry("lookup", "", 0, "datasets", "url",
                           <<"-n", dataset_name, "-w", workspace>>, res # NoUrl,
                           "", FALSE, FALSE)
         IN  IF res = NoUrl
             THEN [params |-> params_dict, lookup |-> <<call>>, err |-> "DatasetResolutionError"]
             ELSE [params |-> DictDel(DictSet(params_dict, "input", res), "dataset"),
                   lookup |-> <<call>>, err |-> NoError]

\* utils.create_temp_yaml: the name of the n-th document written
TempName(n) == "/tmp/params" \o IntStr(n) \o ".yaml"
TempFile(params, params_file) == [params |-> params, params_file |-> params_file]

Built(cmd, members, is_tuple, files, lookup, err) ==
    [cmd |-> cmd, members |-> members, is_tuple |-> is_tuple, files |-> files,
     lookup |-> lookup, err |-> err]

MethodFor(values) == IF AnyJson(values) THEN "import" ELSE "add"

\* GenericCommandBuilder.build_command
GenericBuild(block, data) ==
    Built(Command(block, "add", to_cli_args(block, data)), <<>>, FALSE, <<>>, <<>>, NoError)

\* TypeBasedCommandBuilder.build_command; n temporary documents exist already
TypeBasedBuild(block, data, n) ==
    Built(Command(block, MethodFor(data),
                  to_cli_args(block, data)
                  \o (IF Has(data, "params") THEN <<"--params-file", TempName(n + 1)>> ELSE <<>>)),
          <<>>, FALSE,
          IF Has(data, "params") THEN <<TempFile(Get(data, "params").d, "")>> ELSE <<>>,
          <<>>, NoError)

\* A variant of TeamsBuild: the team is built as any other resource is
TeamsBuild_generic(data) == GenericBuild("teams", data)

\* TeamsCommandBuilder.build_command
TeamsBuild(data) ==
    LET members == Get(data, "members").l
        args    == Options(Without(data, {"members"}), FALSE)
        main    == Command("teams", "add", args)
        member_cmd(m) ==
            Command("teams", "members",
                    <<"--team", PyStr(Get(data, "name")),
                      "--organization", PyStr(Get(data, "organization")),
                      "add", "--member", m>>)
    IN  IF members # <<>>
        THEN Built(main, [i \in 1..Len(members) |-> member_cmd(members[i])], TRUE,
                   <<>>, <<>>, NoError)
        ELSE Built(main, <<>>, FALSE, <<>>, <<>>, NoError)

\* The params handling shared by PipelineCommandBuilder.build_command and
\* build_command_from_dict.  Resolve: the dataset reference is resolved when
\* there are params and a workspace.
Resolve(params, workspace, res) ==
    IF Truthy(params) /\ params.t = "dict" /\ Truthy(workspace)
    THEN resolve_dataset_reference(params.d, PyStr(workspace), res)
    ELSE [params |-> params.d, lookup |-> <<>>, err |-> NoError]

\* The --params-file tokens and the document written, r being the outcome of
\* the resolution
ParamsTokens(params, params_file, r, n) ==
    IF Truthy(params)
    THEN IF r.err # NoError
         THEN [args |-> <<>>, files |-> <<>>, lookup |-> r.lookup, err |-> r.err]
         ELSE [args |-> <<"--params-file", TempName(n + 1)>>,
               files |-> <<TempFile(r.params,
                                    IF params_file.t = "null" THEN "" ELSE PyStr(params_file))>>,
               lookup |-> r.lookup, err |-> NoError]
    ELSE IF Truthy(params_file)
    THEN [args |-> <<"--params-file", PyStr(params_file)>>, files |-> <<>>,
          lookup |-> <<>>, err |-> NoError]
    ELSE [args |-> <<>>, files |-> <<>>, lookup |-> <<>>, err |-> NoError]

ParamsArgs(data, res, n) ==
    ParamsTokens(Get(data, "params"), Get(data, "params-file"),
                 Resolve(Get(data, "params"), Get(data, "workspace"), res), n)

\* PipelineCommandBuilder.build_command: the command, pa being the outcome of
\* the params handling
PipelineCommand(block, data, pa) ==
    Built(Command(block, MethodFor(data), to_cli_args(block, data) \o pa.args),
          <<>>, FALSE, pa.files, pa.lookup, pa.err)

PipelineBuild(block, data, res, n) == PipelineCommand(block, data, ParamsArgs(data, res, n))

build_command(block, data, res, n) ==
    CASE COMMAND_BUILDERS(block) = "TypeBased" -> TypeBasedBuild(block, data, n)
      [] COMMAND_BUILDERS(block) = "Teams"     -> TeamsBuild(data)
      [] COMMAND_BUILDERS(block) = "Pipeline"  -> PipelineBuild(block, data, res, n)
      [] OTHER                                 -> GenericBuild(block, data)

Metadata == {"on_exists", "overwrite"}

\* The first of the keys that the mapping has, as a one-element sequence
FirstPresent(data, keys) ==
    LET present == SelectSeq(keys, LAMBDA k : Has(data, k))
    IN  IF present = <<>> THEN <<>> ELSE <<present[1]>>

\* PipelineCommandBuilder.build_command_from_dict: the command, pos being the
\* positional key found and pa the outcome of the params handling
PipelineDictCommand(block, item, data, pos, pa) ==
    Built(Command(block, MethodFor(item),
                  Positionals(data, pos) \o pa.args
                  \o Options(Without(data, Range(pos) \cup {"params", "params-file"}), FALSE)),
          <<>>, FALSE, pa.files, pa.lookup, pa.err)

TypeBasedPriority == <<"type", "config-mode", "file-path">>

\* build_command_from_dict of CommandBuilder and its overrides in
\* TypeBasedCommandBuilder and PipelineCommandBuilder (items with a file-path),
\* data being the item without its metadata
BuildFromDict(block, item, data, res, n) ==
    CASE COMMAND_BUILDERS(block) = "TypeBased" ->
            Built(Command(block, MethodFor(item),
                          Positionals(data, TypeBasedPriority)
                          \o Options(Without(data, Range(TypeBasedPriority)), FALSE)),
                  <<>>, FALSE, <<>>, <<>>, NoError)
      [] COMMAND_BUILDERS(block) = "Pipeline" ->
            PipelineDictCommand(block, item, data,
                                FirstPresent(data, <<"url", "file-path", "pipeline">>),
                                ParamsArgs(data, res, n))
      [] OTHER ->
            Built(Command(block, "add", Options(data, FALSE)),
                  <<>>, FALSE, <<>>, <<>>, NoError)

build_command_from_dict(block, item, res, n) ==
    BuildFromDict(block, item, Without(item, Metadata), res, n)

-----------------------------------------------------------------------------
(* parse_all_yaml *)

\* A variant of resource_order: the kinds in alphabetical order
resource_order_sorted ==
    << "actions", "compute-envs", "credentials", "data-links", "datasets", "labels",
       "launch", "members", "organizations", "participants", "pipelines", "secrets",
       "studios", "teams", "workspaces" >>

\* helper.parse_all_yaml: the order in which the resources are created
resource_order ==
    << "organizations", "teams", "workspaces", "labels", "members", "participants",
       "credentials", "compute-envs", "secrets", "actions", "datasets", "pipelines",
       "launch", "data-links", "studios" >>

\* A variant of ReversedButLast: the whole list reversed, [::-1]
ReversedWhole(order) == Reverse(order)

\* resource_order[:-1][::-1]
ReversedButLast(order) == Reverse(SubSeq(order, 1, Len(order) - 1))

\* The order parse_all_yaml iterates in
EffectiveOrder(del) == IF del THEN ReversedButLast(resource_order) ELSE resource_order

(* parse_all_yaml: the merge of the files *)

\* A top-level value is a list of mappings (t = "list", its records in items),
\* a non-empty string (t = "str", s) or a mapping (t = "dict", the mapping
\* being items[1]).

\* json.dumps(d, sort_keys = True): the text is determined by, and determines,
\* the set of the mapping's key/value pairs, nested mappings included
json_dumps_sorted(d) ==
    {[k |-> d[i].k, t |-> d[i].t, s |-> d[i].s, b |-> d[i].b, l |-> d[i].l,
      d |-> Range(d[i].d), n |-> d[i].n] : i \in 1..Len(d)}

MergeOk(value) == [err |-> NoError, value |-> value]

\* A variant of MergeValue: the value of the later file replaces the earlier
MergeValue_replace(existing, new_value) == MergeOk(new_value)

\* A variant of MergeValue: every record of the later file is appended
MergeValue_extend(existing, new_value) ==
    IF new_value.t = "list" /\ existing.t = "list"
    THEN MergeOk([existing EXCEPT !.items = @ \o new_value.items])
    ELSE MergeOk(new_value)

\* The body of the loop over data.items() for a key already in merged_data:
\* when the new value is a list of mappings its records not serialised among
\* existing_items are appended to merged_data[key], which fails
\* (AttributeError) when that value, a string or a mapping, has no append;
\* any other new value is assigned
MergeValue(existing, new_value) ==
    IF new_value.t = "list"
    THEN IF existing.t = "list"
         THEN MergeOk([existing EXCEPT !.items =
                          @ \o SelectSeq(new_value.items,
                                         LAMBDA item : json_dumps_sorted(item) \notin
                                             {json_dumps_sorted(existing.items[i]) :
                                                 i \in 1..Len(existing.items)})])
         ELSE IF new_value.items = <<>>
         THEN MergeOk(existing)
         ELSE [err |-> "AttributeError", value |-> existing]
    ELSE MergeOk(new_value)

HasKey(data, key) == \E i \in 1..Len(data) : data[i].block = key
KeyIndex(data, key) == CHOOSE i \in 1..Len(data) : data[i].block = key

\* One iteration of the loop over data.items(): a key not yet in merged_data
\* is inserted after the others, a key already there keeps its place
MergeKey(acc, new_value, r) ==
    IF acc.err # NoError THEN acc
    ELSE IF r.err # NoError THEN [err |-> r.err, data |-> acc.data]
    ELSE IF HasKey(acc.data, new_value.block)
    THEN [err |-> NoError,
          data |-> [acc.data EXCEPT ![KeyIndex(acc.data, new_value.block)] = r.value]]
    ELSE [err |-> NoError, data |-> Append(acc.data, new_value)]

\* The loop over data.items() for one file, from its i-th key on
RECURSIVE merge(_, _, _)
merge(acc, data, i) ==
    IF i > Len(data) THEN acc
    ELSE merge(MergeKey(acc, data[i],
                        IF acc.err = NoError /\ HasKey(acc.data, data[i].block)
                        THEN MergeValue(acc.data[KeyIndex(acc.data, data[i].block)], data[i])
                        ELSE MergeOk(data[i])),
               data, i + 1)

\* A variant of BlockNames: the targets are not looked at
BlockNames_unfiltered(data, tgts) == [i \in 1..Len(data) |-> data[i].block]

\* list(merged_data.keys()), filtered by --targets when given
BlockNames(data, tgts) ==
    LET keys == [i \in 1..Len(data) |-> data[i].block]
    IN  IF tgts # {} THEN SelectSeq(keys, LAMBDA b : b \in tgts) ELSE keys

\* The blocks parse_all_yaml parses, in the order it parses them
ParseOrder(data, tgts, del) ==
    SelectSeq(EffectiveOrder(del), LAMBDA b : b \in Range(BlockNames(data, tgts)))

\* merged_data.get(block_name)
ItemsOf(data, block) == data[CHOOSE i \in 1..Len(data) : data[i].block = block].items

\* parse_yaml_block: the number of iterations of `for item in block` entered;
\* the first iteration over a string or a mapping is the last
Iterations(value) == IF value.t = "list" THEN Len(value.items) ELSE 1

\* Every (block, item) parse_all_yaml visits, in order
WorkList(data, tgts, del) ==
    LET order == ParseOrder(data, tgts, del)
    IN  Flatten([i \in 1..Len(order) |->
                    [j \in 1..Iterations(data[KeyIndex(data, order[i])]) |->
                        [block |-> order[i], idx |-> j]]])

Work == WorkList(merged_data, targets, destroy)

\* parse_block: the record's own policy from its overwrite / on_exists attributes
item_on_exists(overwrite_attr, on_exists_attr) ==
    IF overwrite_attr.t # "null"
    THEN IF Truthy(overwrite_attr) THEN "OVERWRITE" ELSE "FAIL"
    ELSE IF on_exists_attr.t # "null"
    THEN IF on_exists_attr.t = "str"
         THEN IF Upper(on_exists_attr.s) \in OnExists
              THEN Upper(on_exists_attr.s)
              ELSE "<invalid>"
         ELSE "<raw>"
    ELSE "FAIL"

\* parse_block: what is returned for a command that could not be built
ParseFailure(block, on_exists, e, lookup) ==
    [err |-> e, lookup |-> lookup, files |-> <<>>,
     entry |-> [cmd |-> Command(block, "", <<>>), members |-> <<>>,
                is_tuple |-> FALSE, on_exists |-> on_exists]]

\* parse_block: what is returned given the builder's result
ParseResult(block, on_exists, built) ==
    IF built.err # NoError
    THEN ParseFailure(block, on_exists, built.err, built.lookup)
    ELSE [err |-> NoError, lookup |-> built.lookup, files |-> built.files,
          entry |-> [cmd |-> built.cmd, members |-> built.members,
                     is_tuple |-> built.is_tuple, on_exists |-> on_exists]]

\* parse_block with the record's policy resolved
ParseWith(block, item, on_exists, res, n) ==
    IF ~Has(item, "file-path") /\ ~Validates(block, item)
    THEN ParseFailure(block, on_exists, "ValidationError", <<>>)
    ELSE IF on_exists = "<invalid>"
    THEN ParseFailure(block, on_exists, "InvalidOnExists", <<>>)
    ELSE ParseResult(block, on_exists,
                     IF Has(item, "file-path")
                     THEN build_command_from_dict(block, item, res, n)
                     ELSE build_command(block, input_dict(block, item), res, n))

\* helper.parse_block (with validate_and_build_model): res is the answer of the
\* dataset lookup should the item need one, n the number of temporary
\* documents written so far
parse_block(block, item, res, n) ==
    ParseWith(block, item, item_on_exists(Get(item, "overwrite"), Get(item, "on_exists")), res, n)

NameKeys == {"--name", "--user", "--email"}

\* helper.find_name: the token after the first --name, --user or --email of the
\* (main) command's arguments, None when there is none
find_name(args) ==
    LET hits == {i \in 1..Len(args) : args[i] \in NameKeys}
    IN  IF hits = {} THEN NoneStr
        ELSE LET i == CHOOSE j \in hits : \A k \in hits : j <= k
             IN  IF i < Len(args) THEN args[i + 1] ELSE NoneStr

Lower(s) == CASE s = "A" -> "a" [] s = "B" -> "b" [] OTHER -> s

\* A variant of IsDuplicate: names compared without regard to case
IsDuplicate_caseless(name, seen) == Lower(name) \in {Lower(x) : x \in seen}

\* A variant of IsDuplicate: a record without an identifying value is never a
\* duplicate
IsDuplicate_named(name, seen) == name # NoneStr /\ name \in seen

\* parse_yaml_block: the duplicate test
IsDuplicate(name, seen) == name \in seen

-----------------------------------------------------------------------------
(* Existence reconciliation and dispatch *)

\* Overwrite.handle_overwrite: probe for the resource, then act on the policy.
\* dry is the dryrun flag of the reconciler's own client, found the probe's
\* answer, del_ok whether a delete it issues succeeds.
handle_overwrite(block, rec, args, on_exists, del, dry, found, del_ok) ==
    LET call   == Entry("handle_overwrite", block, rec, block, "", args, TRUE, on_exists, del, FALSE)
        probe  == Entry("probe", block, rec, block, "list", <<>>, TRUE, on_exists, del, found)
        delete == Entry("delete", block, rec, block, "delete", <<>>, del_ok, on_exists, del, found)
        removed == [calls |-> <<call, probe, delete>>, continue |-> del_ok,
                    err |-> IF del_ok THEN NoError ELSE "CommandError"]
    IN  IF dry THEN [calls |-> <<call>>, continue |-> TRUE, err |-> NoError]
        ELSE IF ~found THEN [calls |-> <<call, probe>>, continue |-> TRUE, err |-> NoError]
        ELSE IF del THEN removed
        ELSE CASE on_exists = "FAIL" ->
                    [calls |-> <<call, probe>>, continue |-> FALSE, err |-> "ResourceExistsError"]
               [] on_exists = "IGNORE" ->
                    [calls |-> <<call, probe>>, continue |-> FALSE, err |-> NoError]
               [] OTHER -> removed

\* A variant of effective_on_exists: the global policy is not consulted
effective_on_exists_no_global(glob, flag, args_on_exists) ==
    IF flag THEN "OVERWRITE"
    ELSE IF args_on_exists \in OnExists THEN args_on_exists
    ELSE "FAIL"

\* A variant of effective_on_exists: the record's own policy comes before the
\* deprecated flag
effective_on_exists_record_first(glob, flag, args_on_exists) ==
    IF glob # NoneStr THEN glob
    ELSE IF args_on_exists \in OnExists /\ args_on_exists # "FAIL" THEN args_on_exists
    ELSE IF flag THEN "OVERWRITE"
    ELSE "FAIL"

\* BlockParser.handle_block: the policy the record is reconciled with
effective_on_exists(glob, flag, args_on_exists) ==
    IF glob # NoneStr THEN glob
    ELSE IF flag THEN "OVERWRITE"
    ELSE IF args_on_exists \in OnExists THEN args_on_exists
    ELSE "FAIL"

\* Command.execute: the call made on sp
Execute(cmd) == [sub |-> cmd.subcommand, method |-> cmd.method, args |-> cmd.args]

\* Command.execute: the positional arguments the client's operation receives,
\* the method first when the command has one
Received(c) == IF c.method # "" THEN <<c.method>> \o c.args ELSE c.args

\* helper.handle_teams
handle_teams(entry) ==
    IF entry.is_tuple
    THEN <<Execute(entry.cmd)>> \o [i \in 1..Len(entry.members) |-> Execute(entry.members[i])]
    ELSE <<Execute(entry.cmd)>>

\* A variant of handle_participants: the participant is added with the role
handle_participants_with_role(entry) ==
    << [sub |-> "participants", method |-> "add", args |-> entry.cmd.args],
       [sub |-> "participants", method |-> "update", args |-> entry.cmd.args] >>

\* helper.handle_participants: add without the role, then update with it
handle_participants(entry) ==
    LET args == entry.cmd.args
        prev(i) == IF i = 1 THEN args[Len(args)] ELSE args[i - 1]
        keep == {i \in 1..Len(args) : ~(prev(i) = "--role" \/ args[i] = "--role")}
        RECURSIVE pick(_)
        pick(i) == IF i > Len(args) THEN <<>>
                   ELSE (IF i \in keep THEN <<args[i]>> ELSE <<>>) \o pick(i + 1)
    IN  << [sub |-> "participants", method |-> "add", args |-> pick(1)],
           [sub |-> "participants", method |-> "update", args |-> args] >>

\* The calls the block's handler makes on sp, in order, when none fails
handler_calls(block, entry) ==
    CASE block = "teams"        -> handle_teams(entry)
      [] block = "participants" -> handle_participants(entry)
      [] OTHER                  -> <<Execute(entry.cmd)>>

\* A variant of Dispatch: the calls after the one that raised are made all the same
Dispatch_all(block, rec, entry, fail_at) ==
    [calls |-> [i \in 1..Len(handler_calls(block, entry)) |->
                    SpCall(block, rec, handler_calls(block, entry)[i].sub,
                           handler_calls(block, entry)[i].method,
                           handler_calls(block, entry)[i].args, i # fail_at)],
     err |-> IF fail_at \in 1..Len(handler_calls(block, entry)) THEN "CommandError" ELSE NoError]

\* The handler's calls with the fail_at-th one raising (0: none raises)
Dispatch(block, rec, entry, fail_at) ==
    LET intended == handler_calls(block, entry)
        upto     == IF fail_at \in 1..Len(intended) THEN fail_at ELSE Len(intended)
    IN  [calls |-> [i \in 1..upto |->
                        SpCall(block, rec, intended[i].sub, intended[i].method,
                               intended[i].args, i # fail_at)],
         err |-> IF fail_at \in 1..Len(intended) THEN "CommandError" ELSE NoError]

\* The create branch of handle_block, r being the outcome of the reconciliation
\* and d that of the dispatch
Reconciled(r, d) ==
    IF r.err # NoError \/ ~r.continue
    THEN [calls |-> r.calls, err |-> r.err]
    ELSE [calls |-> r.calls \o d.calls, err |-> d.err]

\* handle_block: the reconciliation of the create branch
Reconcile(block, rec, entry, on_exists, dry, found, del_ok) ==
    IF ~dry
    THEN handle_overwrite(block, rec, entry.cmd.args, on_exists, FALSE, dry, found, del_ok)
    ELSE [calls |-> <<>>, continue |-> TRUE, err |-> NoError]

\* A variant of handle_block: the handler is called before the reconciler
handle_block_dispatch_first(block, rec, entry, del, dry, glob, flag, found, del_ok, fail_at) ==
    IF del
    THEN [calls |-> handle_overwrite(block, rec, entry.cmd.args, "FAIL", TRUE, dry,
                                     found, del_ok).calls,
          err |-> handle_overwrite(block, rec, entry.cmd.args, "FAIL", TRUE, dry,
                                   found, del_ok).err]
    ELSE [calls |-> Dispatch(block, rec, entry, fail_at).calls
                    \o Reconcile(block, rec, entry,
                                 effective_on_exists(glob, flag, entry.on_exists),
                                 dry, found, del_ok).calls,
          err |-> Dispatch(block, rec, entry, fail_at).err]

\* A variant of handle_block: should_continue is not looked at
handle_block_no_skip(block, rec, entry, del, dry, glob, flag, found, del_ok, fail_at) ==
    IF del
    THEN [calls |-> handle_overwrite(block, rec, entry.cmd.args, "FAIL", TRUE, dry,
                                     found, del_ok).calls,
          err |-> handle_overwrite(block, rec, entry.cmd.args, "FAIL", TRUE, dry,
                                   found, del_ok).err]
    ELSE Reconciled([Reconcile(block, rec, entry,
                               effective_on_exists(glob, flag, entry.on_exists),
                               dry, found, del_ok) EXCEPT !.continue = TRUE],
                    Dispatch(block, rec, entry, fail_at))

\* A variant of handle_block: the destroy branch passes the record's policy on
handle_block_destroy_by_policy(block, rec, entry, del, dry, glob, flag, found, del_ok, fail_at) ==
    IF del
    THEN [calls |-> handle_overwrite(block, rec, entry.cmd.args,
                                     effective_on_exists(glob, flag, entry.on_exists),
                                     TRUE, dry, found, del_ok).calls,
          err |-> handle_overwrite(block, rec, entry.cmd.args,
                                   effective_on_exists(glob, flag, entry.on_exists),
                                   TRUE, dry, found, del_ok).err]
    ELSE Reconciled(Reconcile(block, rec, entry,
                              effective_on_exists(glob, flag, entry.on_exists),
                              dry, found, del_ok),
                    Dispatch(block, rec, entry, fail_at))

\* BlockParser.handle_block for one parsed entry
handle_block(block, rec, entry, del, dry, glob, flag, found, del_ok, fail_at) ==
    IF del
    THEN [calls |-> handle_overwrite(block, rec, entry.cmd.args, "FAIL", TRUE, dry,
                                     found, del_ok).calls,
          err |-> handle_overwrite(block, rec, entry.cmd.args, "FAIL", TRUE, dry,
                                   found, del_ok).err]
    ELSE Reconciled(Reconcile(block, rec, entry,
                              effective_on_exists(glob, flag, entry.on_exists),
                              dry, found, del_ok),
                    Dispatch(block, rec, entry, fail_at))

-----------------------------------------------------------------------------
(* The run: cli.main *)

\* What sp.datasets("url", ...) may return: a result with a datasetUrl, or none
DatasetUrl == "https://api/datasets/1"
LookupAnswers == {DatasetUrl, NoUrl}

\* parse_yaml_block: the rest of the loop body once parse_block has returned r
\* for record rec of the block, seen being the names met in the block so far
AfterParse(block, rec, seen, r) ==
    /\ calls' = calls \o [i \in 1..Len(r.lookup) |->
                              [r.lookup[i] EXCEPT !.block = block, !.rec = rec]]
    /\ temp_files' = temp_files \o r.files
    /\ IF r.err # NoError
       THEN /\ error' = r.err
            /\ pc' = "failed"
            /\ UNCHANGED <<p, parsed, name_values>>
       ELSE IF IsDuplicate(find_name(r.entry.cmd.args), seen)
       THEN /\ error' = "DuplicateName"
            /\ pc' = "failed"
            /\ UNCHANGED <<p, parsed, name_values>>
       ELSE /\ parsed' = Append(parsed, r.entry)
            /\ name_values' = seen \cup {find_name(r.entry.cmd.args)}
            /\ p' = rec
            /\ pc' = IF rec = Len(Work) THEN "handle" ELSE "parse"
            /\ UNCHANGED error

\* parse_yaml_block: the first statements of the loop body for the idx-th
\* element of the block's value; item.get raises AttributeError on an element
\* that is not a mapping (a character of a string, a key of a mapping)
ParseItem(value, idx, res, n) ==
    IF value.t = "list"
    THEN parse_block(value.block, value.items[idx], res, n)
    ELSE ParseFailure(value.block, NoneStr, "AttributeError", <<>>)

\* parse_all_yaml: the rest of the loop body over the files once the keys of
\* a file are merged, or the merge has raised
AfterMerge(r) ==
    IF r.err # NoError
    THEN /\ error' = r.err
         /\ pc' = "failed"
         /\ UNCHANGED <<merged_data, file_idx>>
    ELSE /\ merged_data' = r.data
         /\ file_idx' = file_idx + 1
         /\ pc' = IF file_idx + 1 = Len(file_paths) THEN "parse" ELSE "merge"
         /\ UNCHANGED error

\* One iteration of the loop over the files of parse_all_yaml: the keys of the
\* next file are merged into merged_data
MergeFile ==
    /\ pc = "merge"
    /\ file_idx < Len(file_paths)
    /\ AfterMerge(merge([err |-> NoError, data |-> merged_data], file_paths[file_idx + 1], 1))
    /\ UNCHANGED <<file_paths, targets, destroy, dryrun, global_on_exists, overwrite,
                   p, h, parsed, name_values, temp_files, calls>>

\* One iteration of the loops of parse_all_yaml / parse_yaml_block: the next
\* item is parsed and checked against the names seen in its block
ParseBlock ==
    /\ pc = "parse"
    /\ p < Len(Work)
    /\ \E res \in LookupAnswers :
          AfterParse(Work[p + 1].block, p + 1,
                     IF Work[p + 1].idx = 1 THEN {} ELSE name_values,
                     ParseItem(merged_data[KeyIndex(merged_data, Work[p + 1].block)],
                               Work[p + 1].idx, res, Len(temp_files)))
    /\ UNCHANGED <<file_paths, file_idx, merged_data, targets, destroy, dryrun, global_on_exists,
                   overwrite, h>>

\* A variant of AfterHandle: the loop goes on to the next entry after an error
AfterHandle_keep_going(r) ==
    /\ calls' = calls \o r.calls
    /\ error' = IF r.err # NoError THEN r.err ELSE error
    /\ h' = h + 1
    /\ UNCHANGED pc

\* main: the rest of the loop body once handle_block has returned or raised
AfterHandle(r) ==
    /\ calls' = calls \o r.calls
    /\ IF r.err # NoError
       THEN /\ error' = r.err
            /\ pc' = "failed"
            /\ UNCHANGED h
       ELSE /\ h' = h + 1
            /\ UNCHANGED <<error, pc>>

\* The number of calls the entry's handler may see fail: a client in dry-run
\* mode only renders its commands
MayFail(block, entry) == IF dryrun THEN 0 ELSE Len(handler_calls(block, entry))

\* One iteration of main's loop over cmd_args_dict: handle_block for the next
\* parsed entry, with the answers of the external system chosen freely
HandleBlock ==
    /\ pc = "handle"
    /\ h < Len(parsed)
    /\ \E found \in BOOLEAN, del_ok \in BOOLEAN,
          fail_at \in 0..MayFail(Work[h + 1].block, parsed[h + 1]) :
          AfterHandle(handle_block(Work[h + 1].block, h + 1, parsed[h + 1], destroy, dryrun,
                                   global_on_exists, overwrite, found, del_ok, fail_at))
    /\ UNCHANGED <<file_paths, file_idx, merged_data, targets, destroy, dryrun, global_on_exists,
                   overwrite, p, parsed, name_values, temp_files>>

\* main returns once every parsed entry is handled
Finish ==
    /\ \/ pc = "handle" /\ h = Len(parsed)
       \/ pc = "parse" /\ Len(Work) = 0
    /\ pc' = "done"
    /\ UNCHANGED <<file_paths, file_idx, merged_data, targets, destroy, dryrun, global_on_exists,
                   overwrite, p, h, parsed, name_values, temp_files, calls, error>>

Next == MergeFile \/ ParseBlock \/ HandleBlock \/ Finish

-----------------------------------------------------------------------------
(* Inputs *)

Names == {"a", "b"}

\* A valid item of the block with every required attribute, identified by name
MinimalItem(block, name) ==
    CASE block = "organizations" -> <<S("name", name), S("full-name", "F")>>
      [] block = "teams"         -> <<S("name", name), S("organization", "o")>>
      [] block = "workspaces"    -> <<S("name", name), S("organization", "o"), S("full-name", "F")>>
      [] block = "labels"        -> <<S("name", name), S("workspace", "w")>>
      [] block = "members"       -> <<S("user", name), S("organization", "o")>>
      [] block = "participants"  -> <<S("name", name), S("type", "MEMBER"), S("workspace", "w"),
                                      S("role", "admin")>>
      [] block = "credentials"   -> <<S("type", "aws"), S("name", name)>>
      [] block = "compute-envs"  -> <<S("type", "aws-batch"), S("config-mode", "forge"),
                                      S("name", name), S("work-dir", "s3"), S("region", "r"),
                                      I("max-cpus", 4)>>
      [] block = "secrets"       -> <<S("name", name), S("value", "v")>>
      [] block = "actions"       -> <<S("type", "tower"), S("name", name)>>
      [] block = "datasets"      -> <<S("name", name), S("workspace", "w"), S("file-path", "f.csv")>>
      [] block = "pipelines"     -> <<S("name", name), S("url", "u")>>
      [] block = "launch"        -> <<S("pipeline", "u"), S("name", name)>>
      [] block = "data-links"    -> <<S("name", name), S("uri", "s3"), S("provider", "aws")>>
      [] block = "studios"       -> <<S("name", name), S("compute-env", "ce")>>

\* The entry of a document for a key whose value is a list of mappings
Doc(block, items) == [block |-> block, t |-> "list", s |-> "", items |-> items]

SeqsUpTo(F, n) == UNION {[1..k -> F] : k \in 1..n}

Config(del, dry, glob, flag) == [destroy |-> del, dryrun |-> dry, glob |-> glob, flag |-> flag]

\* The run of seqerakit on the files of one of the given lists
InitFiles(files, tgts, cfgs) ==
    /\ file_paths \in files
    /\ file_idx = 0
    /\ merged_data = <<>>
    /\ targets \in tgts
    /\ \E c \in cfgs :
          /\ destroy = c.destroy
          /\ dryrun = c.dryrun
          /\ global_on_exists = c.glob
          /\ overwrite = c.flag
    /\ pc = "merge"
    /\ p = 0
    /\ h = 0
    /\ parsed = <<>>
    /\ name_values = {}
    /\ temp_files = <<>>
    /\ calls = <<>>
    /\ error = NoError

\* The run of seqerakit on one file, holding one of the given documents
InitWith(docs, tgts, cfgs) == InitFiles({<<d>> : d \in docs}, tgts, cfgs)

\* Documents of one block with up to MaxItems items
MaxItems == 2

PolicyAttrs == {<<>>, <<S("on_exists", "ignore")>>, <<S("on_exists", "overwrite")>>}

ParamsWithDataset == <<[k |-> "dataset", v |-> "d1"], [k |-> "outdir", v |-> "s3://x"]>>
ParamsPlain == <<[k |-> "outdir", v |-> "s3://x"]>>

Family(block) ==
    CASE block = "organizations" ->
            {MinimalItem(block, n) \o pol : n \in Names, pol \in PolicyAttrs}
            \cup {<<S("name", "a")>>}
      [] block = "teams" ->
            {MinimalItem(block, n) \o mem :
                n \in Names, mem \in {<<>>, <<L("members", <<"m1", "m2">>)>>}}
            \cup {MinimalItem(block, "a")
                      \o <<L("members", <<"m1", "m2">>), S("on_exists", "ignore")>>,
                  MinimalItem(block, "a") \o <<S("description", "d"), L("members", <<"m1">>)>>}
      [] block = "participants" ->
            {<<S("name", n), S("type", "MEMBER"), S("workspace", w), S("role", "admin")>> \o pol :
                n \in {"a", "A"}, w \in {"w", "w2"},
                pol \in {<<>>, <<S("on_exists", "overwrite")>>}}
      [] block = "launch" ->
            {<<S("pipeline", "u")>> \o nm \o par :
                nm \in {<<>>, <<S("name", "a")>>, <<S("name", "b")>>},
                par \in {<<>>, <<S("workspace", "w"), D("params", ParamsWithDataset)>>}}
            \cup {<<S("pipeline", "u"), S("name", "a"), S("workspace", "w"),
                    D("params", ParamsPlain)>>}
      [] block = "datasets" ->
            {MinimalItem(block, "a"), <<S("workspace", "w"), S("file-path", "f.csv")>>}

RunBlocks == {"organizations", "teams", "participants", "launch", "datasets"}

RunDocs ==
    UNION {{<<Doc(b, items)>> : items \in SeqsUpTo(Family(b), MaxItems)} : b \in RunBlocks}

RunConfigs ==
    {Config(del, dry, glob, flag) :
        del \in BOOLEAN, dry \in BOOLEAN, glob \in {NoneStr, "OVERWRITE"}, flag \in BOOLEAN}

Init == InitWith(RunDocs, {{}}, RunConfigs)

Spec == Init /\ [][Next]_vars

\* Documents of up to MaxBlocks blocks, in any key order, one item each; and
\* one document with every kind, its keys in no particular order
MaxBlocks == 2

DistinctSeqs(F, n) ==
    UNION {{s \in [1..k -> F] : \A i, j \in 1..k : i # j => s[i] # s[j]} : k \in 1..n}

ScrambledKinds ==
    << "launch", "studios", "organizations", "pipelines", "data-links", "members",
       "teams", "datasets", "labels", "compute-envs", "workspaces", "secrets",
       "credentials", "actions", "participants" >>

DocOf(blocks) == [i \in 1..Len(blocks) |-> Doc(blocks[i], <<MinimalItem(blocks[i], "a")>>)]

OrderDocs ==
    {DocOf(bs) : bs \in DistinctSeqs(Range(resource_order), MaxBlocks)}
    \cup {DocOf(SubSeq(ScrambledKinds, 1, 6))}
    \cup {<<Doc("launch", << <<S("pipeline", "u"), S("workspace", "w"),
                              D("params", ParamsWithDataset)>> >>),
            Doc("datasets", <<MinimalItem("datasets", "d1")>>)>>}

InitOrder ==
    \/ InitWith(OrderDocs, {{}}, {Config(del, FALSE, NoneStr, FALSE) : del \in BOOLEAN})
    \/ InitWith({DocOf(ScrambledKinds)}, {{}}, {Config(FALSE, FALSE, NoneStr, FALSE)})

SpecOrder == InitOrder /\ [][Next]_vars

\* Documents of one record that states its policy in every way, run under
\* every global setting
PolicySpellings == {"fail", "ignore", "Ignore", "IGNORE", "overwrite", "OVERWRITE", "skip"}

PolicyItems(block) ==
    {MinimalItem(block, "a") \o ow \o oe :
        ow \in {<<>>, <<B("overwrite", TRUE)>>, <<B("overwrite", FALSE)>>},
        oe \in {<<>>} \cup {<<S("on_exists", v)>> : v \in PolicySpellings}}

PolicyBlocks == {"organizations", "teams", "launch"}

PolicyDocs == UNION {{<<Doc(b, <<it>>)>> : it \in PolicyItems(b)} : b \in PolicyBlocks}

PolicyConfigs ==
    {Config(FALSE, FALSE, glob, flag) : glob \in {NoneStr} \cup OnExists, flag \in BOOLEAN}

InitPolicy == InitWith(PolicyDocs, {{}}, PolicyConfigs)

SpecPolicy == InitPolicy /\ [][Next]_vars

\* Runs on up to MaxFiles files that all state the key organizations: as a
\* list of up to MaxItems records, two of which are equal but for the order of
\* their keys, as a string, or as a mapping
MaxFiles == 2

MergeItems ==
    { <<S("name", "a"), S("full-name", "F")>>,
      <<S("full-name", "F"), S("name", "a")>>,
      <<S("name", "b"), S("full-name", "F")>> }

Scalar(block, v) == [block |-> block, t |-> "str", s |-> v, items |-> <<>>]
Mapping(block, item) == [block |-> block, t |-> "dict", s |-> "", items |-> <<item>>]

MergeValues ==
    {Doc("organizations", items) : items \in DistinctSeqs(MergeItems, MaxItems) \cup {<<>>}}
    \cup {Scalar("organizations", "x"), Mapping("organizations", <<S("name", "a")>>)}

MergeDocs ==
    {<<v>> : v \in MergeValues}
    \cup {<<Doc("teams", <<MinimalItem("teams", "a")>>),
            Doc("organizations", <<MinimalItem("organizations", "b")>>)>>}

InitMerge ==
    InitFiles(SeqsUpTo(MergeDocs, MaxFiles), {{}},
              {Config(FALSE, dry, NoneStr, FALSE) : dry \in BOOLEAN})

SpecMerge == InitMerge /\ [][Next]_vars

\* Runs with --targets: documents of up to MaxBlocks kinds, and one whose
\* organizations record is invalid, under every set of targets drawn from
\* three kinds and a name that is no kind
TargetKinds == {"organizations", "teams", "pipelines", "studios"}

TargetNames == {"organizations", "teams", "studios", "bogus"}

TargetDocs ==
    {DocOf(bs) : bs \in DistinctSeqs(TargetKinds, MaxBlocks)}
    \cup {<<Doc("organizations", << <<S("name", "a")>> >>),
            Doc("teams", <<MinimalItem("teams", "a")>>)>>}

InitTargets ==
    InitWith(TargetDocs, SUBSET TargetNames,
             {Config(del, FALSE, NoneStr, FALSE) : del \in BOOLEAN})

SpecTargets == InitTargets /\ [][Next]_vars

\* Runs on one pipeline or launch record that states its parameters in every
\* way: no, an empty or a non-empty inline mapping, with or without a dataset
\* reference, with or without an explicit params-file and a workspace; the
\* pipeline is given by its url or imported from a file
ParamsHeads ==
    { [block |-> "launch",    head |-> <<S("pipeline", "u")>>],
      [block |-> "pipelines", head |-> <<S("name", "a"), S("url", "u")>>],
      [block |-> "pipelines", head |-> <<S("name", "a"), S("file-path", "f.json")>>] }

ParamsTails ==
    {ws \o par \o pf :
        ws \in {<<>>, <<S("workspace", "w")>>},
        par \in {<<>>, <<D("params", <<>>)>>, <<D("params", ParamsPlain)>>,
                 <<D("params", ParamsWithDataset)>>},
        pf \in {<<>>, <<S("params-file", "p.yaml")>>}}

ParamsDocs == {<<Doc(hd.block, <<hd.head \o tl>>)>> : hd \in ParamsHeads, tl \in ParamsTails}

InitParams ==
    InitWith(ParamsDocs, {{}}, {Config(FALSE, dry, NoneStr, FALSE) : dry \in BOOLEAN})

SpecParams == InitParams /\ [][Next]_vars

\* Runs on one dataset record that states any of its attributes
DatasetAttrs ==
    <<S("name", "a"), S("workspace", "w"), S("file-path", "f.csv"), S("description", "d")>>

DatasetItems ==
    {SelectSeq(DatasetAttrs, LAMBDA a : a.k \in ks) \o hd :
        ks \in SUBSET {"name", "workspace", "file-path", "description"},
        hd \in {<<>>, <<B("header", TRUE)>>, <<B("header", FALSE)>>}}

DatasetDocs == {<<Doc("datasets", <<it>>)>> : it \in DatasetItems}

InitDatasets ==
    InitWith(DatasetDocs, {{}}, {Config(FALSE, dry, NoneStr, FALSE) : dry \in BOOLEAN})

SpecDatasets == InitDatasets /\ [][Next]_vars

\* Runs on one record of a kind with the generic mapping, with attributes of
\* every type: strings (the empty one too), numbers (zero too), booleans,
\* null, lists, and attributes the kind's model does not declare
GenericKinds ==
    {"organizations", "workspaces", "labels", "members", "participants", "secrets",
     "data-links", "studios"}

GenericExtras(block) ==
    CASE block = "organizations" ->
            { <<S("description", "")>>, <<S("description", "d"), N("website")>>,
              <<S("foo", "bar")>>, <<L("location", <<"x", "y">>)>>,
              <<L("tags", <<"x", "y">>)>> }
      [] block = "labels" ->
            { <<S("value", "")>>, <<S("value", "v")>>, <<N("value")>>,
              <<L("value", <<"x", "y">>)>> }
      [] block = "studios" ->
            { <<I("cpu", 0)>>, <<I("cpu", 2), B("private", TRUE)>>,
              <<B("private", FALSE), I("gpu", 1)>>, <<B("auto-start", TRUE), N("cpu")>>,
              <<S("description", ""), I("cpu", 0), B("private", TRUE),
                B("auto-start", FALSE), N("memory"), S("foo", "bar")>> }
      [] OTHER -> {}

GenericItems(block) ==
    {MinimalItem(block, "a") \o ex : ex \in {<<>>} \cup GenericExtras(block)}

GenericDocs == UNION {{<<Doc(b, <<it>>)>> : it \in GenericItems(b)} : b \in GenericKinds}

InitGeneric ==
    InitWith(GenericDocs, {{}}, {Config(FALSE, dry, NoneStr, FALSE) : dry \in BOOLEAN})

SpecGeneric == InitGeneric /\ [][Next]_vars

-----------------------------------------------------------------------------
(* Properties *)

Idx == 1..Len(calls)

\* The positions of the history at which the reconciler is called
Reconciliations == {i \in Idx : calls[i].op = "handle_overwrite"}

\* The positions at which a command of record r is executed on the client
Dispatched(r) == {i \in Idx : calls[i].op = "sp" /\ calls[i].rec = r}

\* The item record r was parsed from
ItemOfRec(r) == ItemsOf(merged_data, Work[r].block)[Work[r].idx]

Pos(order, b) == CHOOSE i \in 1..Len(order) : order[i] = b

KindsIn(ops) == {calls[i].block : i \in {j \in Idx : calls[j].op \in ops}}

Keys == {merged_data[k].block : k \in 1..Len(merged_data)}

CreationOrder ==
    << "organizations", "teams", "workspaces", "labels", "members", "participants",
       "credentials", "compute-envs", "secrets", "actions", "datasets", "pipelines",
       "launch", "data-links", "studios" >>

DestroyOrder ==
    << "data-links", "launch", "pipelines", "datasets", "actions", "secrets",
       "compute-envs", "credentials", "participants", "members", "labels",
       "workspaces", "teams", "organizations" >>

\* C1: in a create run the kinds are processed in the creation order, whatever
\* the order of the document's keys: everything done for a kind (reconciliation
\* and dispatch) comes before anything done for a later kind, and a run that
\* completes has dispatched a command for every kind of the document.
C1_CreationOrder ==
    ~destroy =>
        /\ \A i, j \in Idx :
              (i < j /\ calls[i].op # "lookup" /\ calls[j].op # "lookup")
              => Pos(CreationOrder, calls[i].block) <= Pos(CreationOrder, calls[j].block)
        /\ \A i, j \in 1..Len(Work) :
              i < j => Pos(CreationOrder, Work[i].block) <= Pos(CreationOrder, Work[j].block)
        /\ pc = "done" => Keys = KindsIn({"sp"})

\* A create run over a document of all fifteen kinds, its first key being
\* launch, that completed with commands of all fifteen dispatched
C1_Witness ==
    /\ ~destroy
    /\ pc = "done"
    /\ merged_data[1].block = "launch"
    /\ Cardinality(KindsIn({"sp"})) = Len(CreationOrder)

\* C2: under Overwrite in a create run that is not a dry run, a resource the
\* probe finds is deleted, and the delete has completed, before the record's
\* command is dispatched; a resource it does not find is dispatched with no
\* delete issued.
C2_Overwrite ==
    \A i \in Reconciliations :
        (~calls[i].destroy /\ ~dryrun /\ calls[i].on_exists = "OVERWRITE") =>
            /\ calls[i + 1].op = "probe"
            /\ calls[i + 1].rec = calls[i].rec
            /\ IF calls[i + 1].found
               THEN /\ calls[i + 2].op = "delete"
                    /\ calls[i + 2].rec = calls[i].rec
                    /\ \A j \in Dispatched(calls[i].rec) : j > i + 2
                    /\ IF calls[i + 2].ok
                       THEN /\ Len(calls) >= i + 3
                            /\ i + 3 \in Dispatched(calls[i].rec)
                       ELSE Dispatched(calls[i].rec) = {}
               ELSE /\ \A j \in Idx : ~(calls[j].op = "delete" /\ calls[j].rec = calls[i].rec)
                    /\ Len(calls) >= i + 2
                    /\ i + 2 \in Dispatched(calls[i].rec)

\* A record reconciled under Overwrite whose resource existed, was deleted and
\* then created
C2_Witness ==
    \E i \in Reconciliations :
        /\ ~calls[i].destroy
        /\ calls[i].on_exists = "OVERWRITE"
        /\ calls[i + 1].found
        /\ calls[i + 2].op = "delete" /\ calls[i + 2].ok
        /\ Len(calls) >= i + 3
        /\ calls[i + 3].op = "sp" /\ calls[i + 3].ok

\* C3: under Ignore in a create run that is not a dry run, a record whose
\* resource exists is skipped: none of its commands is dispatched (for a team,
\* neither the create nor a member-add), no error is raised for it and the run
\* goes on with the next record; a record whose resource does not exist is
\* dispatched.
C3_Ignore ==
    \A i \in Reconciliations :
        (~calls[i].destroy /\ ~dryrun /\ calls[i].on_exists = "IGNORE") =>
            /\ calls[i + 1].op = "probe"
            /\ calls[i + 1].rec = calls[i].rec
            /\ IF calls[i + 1].found
               THEN /\ Dispatched(calls[i].rec) = {}
                    /\ h >= calls[i].rec
                    /\ Len(calls) >= i + 2 =>
                          /\ calls[i + 2].op = "handle_overwrite"
                          /\ calls[i + 2].rec = calls[i].rec + 1
               ELSE /\ Len(calls) >= i + 2
                    /\ i + 2 \in Dispatched(calls[i].rec)

\* A team with members that was skipped under Ignore, the run having gone on
\* to dispatch the next record
C3_Witness ==
    \E i \in Reconciliations :
        /\ calls[i].on_exists = "IGNORE"
        /\ ~calls[i].destroy
        /\ calls[i].block = "teams"
        /\ parsed[calls[i].rec].is_tuple
        /\ calls[i + 1].found
        /\ Dispatched(calls[i].rec + 1) # {}
        /\ error = NoError

\* C4: under Fail in a create run that is not a dry run, a record whose
\* resource exists fails the run with a resource-exists error, nothing being
\* dispatched for it or for a later record; a record whose resource does not
\* exist is dispatched.
C4_Fail ==
    \A i \in Reconciliations :
        (~calls[i].destroy /\ ~dryrun /\ calls[i].on_exists = "FAIL") =>
            /\ calls[i + 1].op = "probe"
            /\ calls[i + 1].rec = calls[i].rec
            /\ IF calls[i + 1].found
               THEN /\ error = "ResourceExistsError"
                    /\ pc = "failed"
                    /\ Len(calls) = i + 1
                    /\ \A r \in calls[i].rec..Len(parsed) : Dispatched(r) = {}
               ELSE /\ Len(calls) >= i + 2
                    /\ i + 2 \in Dispatched(calls[i].rec)

\* A run of two records that failed on the first, which existed, under Fail
C4_Witness ==
    /\ error = "ResourceExistsError"
    /\ Len(parsed) = 2
    /\ h = 0
    /\ \E i \in Reconciliations :
          calls[i].on_exists = "FAIL" /\ ~calls[i].destroy /\ calls[i + 1].found

\* The policy a spelling names, whatever its case
PolicyNamed(s) ==
    CASE s \in {"fail", "Fail", "FAIL"}                -> "FAIL"
      [] s \in {"ignore", "Ignore", "IGNORE"}          -> "IGNORE"
      [] s \in {"overwrite", "Overwrite", "OVERWRITE"} -> "OVERWRITE"

\* The precedence of the policy sources: the global policy (the deprecated
\* global flag being a global policy of Overwrite), then the record's boolean,
\* then the record's on_exists, then Fail
Precedence(item) ==
    IF global_on_exists # NoneStr THEN global_on_exists
    ELSE IF overwrite THEN "OVERWRITE"
    ELSE IF Has(item, "overwrite")
    THEN (IF Get(item, "overwrite").b THEN "OVERWRITE" ELSE "FAIL")
    ELSE IF Has(item, "on_exists") THEN PolicyNamed(Get(item, "on_exists").s)
    ELSE "FAIL"

\* C5: the policy a record is reconciled with in a create run is resolved with
\* the precedence global policy > the record's boolean overwrite (true:
\* Overwrite, false: Fail) > the record's on_exists > Fail.
C5_PolicyPrecedence ==
    /\ \A i \in Reconciliations :
          ~calls[i].destroy => calls[i].on_exists = Precedence(ItemOfRec(calls[i].rec))
    /\ (~destroy /\ ~dryrun) => \A r \in 1..h : \E i \in Reconciliations : calls[i].rec = r

\* A record with on_exists: ignore reconciled with Overwrite under a global
\* policy of Overwrite
C5_Witness ==
    /\ global_on_exists = "OVERWRITE"
    /\ \E i \in Reconciliations :
          /\ Get(ItemOfRec(calls[i].rec), "on_exists").s = "ignore"
          /\ ~Has(ItemOfRec(calls[i].rec), "overwrite")
          /\ calls[i].on_exists = "OVERWRITE"

\* C6: in a destroy run every record handled goes to the reconciler with the
\* policy Fail and the destroy flag set, whatever the global policy, the global
\* flag and the record's own policy, and no command is executed on the client.
C6_DestroyRoutesToDeletion ==
    destroy =>
        /\ \A i \in Idx : calls[i].op # "sp"
        /\ \A i \in Idx :
              calls[i].op \in {"handle_overwrite", "probe", "delete"} =>
                  calls[i].on_exists = "FAIL" /\ calls[i].destroy
        /\ \A r \in 1..h : \E i \in Reconciliations : calls[i].rec = r

\* A destroy run under a global policy of Overwrite and the global flag that
\* deleted the resource of a record with a policy of its own
C6_Witness ==
    /\ destroy
    /\ global_on_exists = "OVERWRITE"
    /\ overwrite
    /\ pc = "done"
    /\ \E i \in Idx :
          /\ calls[i].op = "delete"
          /\ Has(ItemOfRec(calls[i].rec), "on_exists")

\* C7: in a destroy run the kinds are processed in the reverse of the creation
\* order without its last kind, studios, whose records are never processed.
C7_DestroyOrder ==
    /\ EffectiveOrder(TRUE) = DestroyOrder
    /\ destroy =>
          /\ \A i \in 1..Len(Work) : Work[i].block # "studios"
          /\ \A i \in Idx : calls[i].block # "studios"
          /\ \A i, j \in Idx :
                i < j => Pos(DestroyOrder, calls[i].block) <= Pos(DestroyOrder, calls[j].block)
          /\ pc = "done" => KindsIn({"handle_overwrite"}) = Keys \ {"studios"}

\* A destroy run over a document of six kinds, studios among them, that
\* completed having deleted resources and handled the five other kinds
C7_Witness ==
    /\ destroy
    /\ pc = "done"
    /\ Len(merged_data) = 6
    /\ "studios" \in Keys
    /\ Cardinality(KindsIn({"delete"})) = 5

\* C8: in a dry run nothing is asked of the external system: no dataset
\* lookup, no probe and no delete is made, and no record fails on a lookup.
C8_DryRunMakesNoCalls ==
    dryrun =>
        /\ \A i \in Idx : calls[i].op \notin {"lookup", "probe", "delete"}
        /\ error # "DatasetResolutionError"

ParseErrors == {"ValidationError", "InvalidOnExists", "DuplicateName", "DatasetResolutionError"}

\* C9: the run stops at the first error: a call that failed is the last one
\* made (for a team, no member-add follows a failed create or member-add), a
\* record that failed validation or reconciliation has nothing dispatched for
\* it or after it, and no delete is issued to undo what was dispatched.
C9_AbortOnFirstError ==
    /\ \A i \in Idx : ~calls[i].ok => i = Len(calls) /\ error # NoError
    /\ error # NoError =>
          /\ pc = "failed"
          /\ \A r \in (h + 1)..Len(parsed) :
                Dispatched(r) # {} => ~calls[Len(calls)].ok /\ Len(calls) \in Dispatched(r)
    /\ error \in ParseErrors => \A i \in Idx : calls[i].op = "lookup"
    /\ \A i \in Idx :
          calls[i].op = "delete" =>
              /\ calls[i - 1].op = "probe" /\ calls[i - 1].found
              /\ Dispatched(calls[i].rec) \cap 1..i = {}

\* A team whose first member-add failed after the team was created: the second
\* member-add was not made, and the first record's command stays dispatched
C9_Witness ==
    /\ error = "CommandError"
    /\ Len(calls) > 0
    /\ calls[Len(calls)].op = "sp"
    /\ calls[Len(calls)].method = "members"
    /\ ~calls[Len(calls)].ok
    /\ calls[Len(calls)].rec = 2
    /\ Cardinality(Dispatched(2)) = 2
    /\ Len(parsed[2].members) = 2
    /\ Dispatched(1) # {}

\* The value that identifies a record: its name, user or email
IdentifyingValue(item) ==
    IF Has(item, "name") THEN Get(item, "name").s
    ELSE IF Has(item, "user") THEN Get(item, "user").s
    ELSE IF Has(item, "email") THEN Get(item, "email").s
    ELSE NoneStr

\* C10: parsing the records of a kind fails with the duplicate-name error
\* only at a record whose identifying value is exactly that of an earlier
\* record of the kind, whatever their other attributes, and never gets past
\* two records with the same identifying value.
C10_DuplicateNames ==
    /\ error = "DuplicateName" =>
          \E j \in 1..p :
              /\ Work[j].block = Work[p + 1].block
              /\ IdentifyingValue(ItemOfRec(j)) = IdentifyingValue(ItemOfRec(p + 1))
    /\ \A i, j \in 1..p :
          (i < j /\ Work[i].block = Work[j].block) =>
              IdentifyingValue(ItemOfRec(i)) # IdentifyingValue(ItemOfRec(j))

\* Two participants of the same name in different workspaces, refused as
\* duplicates
C10_Witness ==
    /\ error = "DuplicateName"
    /\ Work[1].block = "participants"
    /\ p = 1
    /\ Get(ItemOfRec(1), "workspace").s # Get(ItemOfRec(2), "workspace").s
    /\ Get(ItemOfRec(1), "name").s = Get(ItemOfRec(2), "name").s

-----------------------------------------------------------------------------
\* C11: when the run fails with the duplicate-name error, no call at all (no
\* executor call, no existence probe, no dataset lookup) has been issued for
\* any record of the kind in which the duplicate was found.
C11_DuplicateBeforeAnyCall ==
    error = "DuplicateName" =>
        \A i \in Idx : calls[i].block # Work[p + 1].block

-----------------------------------------------------------------------------
\* Deep equality of two mappings, the order of their keys being irrelevant
SameAttr(x, y) ==
    /\ x.k = y.k /\ x.t = y.t /\ x.s = y.s /\ x.b = y.b /\ x.l = y.l /\ x.n = y.n
    /\ Range(x.d) = Range(y.d)

ContentEqual(a, b) ==
    /\ \A i \in 1..Len(a) : \E j \in 1..Len(b) : SameAttr(a[i], b[j])
    /\ \A j \in 1..Len(b) : \E i \in 1..Len(a) : SameAttr(a[i], b[j])

\* The document states the key with a list of mappings
ListIn(data, key) == HasKey(data, key) /\ data[KeyIndex(data, key)].t = "list"

RecordsOf(data, key) == data[KeyIndex(data, key)].items

\* The file the next merge step reads
NextFile == file_paths[file_idx + 1]

\* C12: merging a file never drops a structurally distinct record: for a key
\* that the accumulated document and the file both state as a list of
\* mappings, the merged list is the accumulated records in their order
\* followed, in their order, by every record of the file that is content-equal
\* to no accumulated record; the file's list never replaces the earlier one.
\* The merge of the file completes whenever every key the file states as a
\* list of mappings is new or is a list of mappings in the accumulated
\* document.
C12_MergeKeepsDistinct ==
    [][ pc = "merge" =>
        /\ ( \A i \in 1..Len(NextFile) :
                (HasKey(merged_data, NextFile[i].block) /\ NextFile[i].t = "list")
                => ListIn(merged_data, NextFile[i].block) )
           => pc' # "failed"
        /\ pc' # "failed" =>
           \A i \in 1..Len(NextFile) :
              ( /\ ListIn(merged_data, NextFile[i].block)
                /\ NextFile[i].t = "list" )
              => RecordsOf(merged_data', NextFile[i].block) =
                    RecordsOf(merged_data, NextFile[i].block)
                    \o SelectSeq(NextFile[i].items,
                                 LAMBDA r : \A d \in Range(RecordsOf(merged_data, NextFile[i].block)) :
                                               ~ContentEqual(r, d)) ]_vars

\* Two files were merged; the second has a record that differs from one of the
\* first only by the order of its keys, dropped, and a record appended
C12_Witness ==
    /\ file_idx = 2
    /\ ListIn(file_paths[1], "organizations")
    /\ ListIn(file_paths[2], "organizations")
    /\ \E r \in Range(RecordsOf(file_paths[2], "organizations")) :
          /\ r \notin Range(RecordsOf(file_paths[1], "organizations"))
          /\ \E d \in Range(RecordsOf(file_paths[1], "organizations")) : ContentEqual(r, d)
    /\ Len(RecordsOf(merged_data, "organizations")) >
          Len(RecordsOf(file_paths[1], "organizations"))
    /\ Len(RecordsOf(merged_data, "organizations")) <
          Len(RecordsOf(file_paths[1], "organizations"))
          + Len(RecordsOf(file_paths[2], "organizations"))

\* Two documents state the same keys, each with lists of mappings that are
\* content-equal record by record
SameContent(d1, d2) ==
    /\ Len(d1) = Len(d2)
    /\ \A i \in 1..Len(d1) :
          /\ d1[i].block = d2[i].block
          /\ d1[i].t = "list" /\ d2[i].t = "list"
          /\ Len(d1[i].items) = Len(d2[i].items)
          /\ \A j \in 1..Len(d1[i].items) : ContentEqual(d1[i].items[j], d2[i].items[j])

\* C13: the merge is idempotent on lists of mappings: merging a file whose
\* records are content-equal to those of the file merged just before it (the
\* same file given twice, for one) leaves the merged document as it was.
C13_MergeIdempotent ==
    [][ ( /\ pc = "merge"
          /\ file_idx >= 1
          /\ SameContent(file_paths[file_idx], NextFile) )
        => /\ pc' # "failed"
           /\ merged_data' = merged_data ]_vars

\* The same records were merged twice, from files that spell them differently
C13_Witness ==
    /\ file_idx = 2
    /\ file_paths[1] # file_paths[2]
    /\ SameContent(file_paths[1], file_paths[2])
    /\ RecordsOf(file_paths[1], "organizations") # <<>>
    /\ merged_data = file_paths[1]

\* C14: when a key is already in the accumulated document and the existing
\* and the new value are not both lists of mappings, the merge completes and
\* the new file's value replaces the existing one.
C14_LastWriteWins ==
    [][ pc = "merge" =>
        \A i \in 1..Len(NextFile) :
           ( /\ HasKey(merged_data, NextFile[i].block)
             /\ ~( /\ merged_data[KeyIndex(merged_data, NextFile[i].block)].t = "list"
                   /\ NextFile[i].t = "list" ) )
           => /\ pc' # "failed"
              /\ merged_data'[KeyIndex(merged_data', NextFile[i].block)] = NextFile[i] ]_vars

-----------------------------------------------------------------------------
\* The item states no value for an attribute its kind's model requires
LacksMandatory(block, item) ==
    \E fld \in Range(MODEL_MAP(block)) : fld.req /\ ~Has(item, fld.k)

\* C15: a record that lacks a kind-mandatory attribute fails parsing with a
\* validation error, before any reconcile or dispatch call for it: such a
\* record is never among the parsed ones, no call is ever made for it, and a
\* run that stops at it stops with the validation error.
C15_MissingAttributeFailsParsing ==
    \A r \in 1..Len(Work) :
        LacksMandatory(Work[r].block, ItemOfRec(r)) =>
            /\ p < r
            /\ \A i \in Idx : calls[i].rec # r
            /\ (pc = "failed" /\ p = r - 1) => error = "ValidationError"

-----------------------------------------------------------------------------
\* The tokens of every command synthesized for a parsed entry
TokensOf(entry) ==
    Range(entry.cmd.args)
    \cup UNION {Range(entry.members[i].args) : i \in 1..Len(entry.members)}

\* C16: the metadata attributes on_exists and overwrite are stripped before
\* synthesis: whatever the kind and the values given, no synthesized command
\* has an --on_exists or an --overwrite token.
C16_MetadataStripped ==
    \A r \in 1..Len(parsed) :
        /\ "--on_exists" \notin TokensOf(parsed[r])
        /\ "--overwrite" \notin TokensOf(parsed[r])

-----------------------------------------------------------------------------
\* The commands executed on the client for record r, in the order of the calls
SpCallsOf(r) ==
    LET mine == SelectSeq(calls, LAMBDA c : c.op = "sp" /\ c.rec = r)
    IN  [i \in 1..Len(mine) |->
            Command(mine[i].sub, mine[i].method, mine[i].args)]

IsPrefix(s, t) == Len(s) <= Len(t) /\ s = SubSeq(t, 1, Len(s))

\* The team-create command of a team record
TeamCreate(item) ==
    Command("teams", "add",
            <<"--name", Get(item, "name").s, "--organization", Get(item, "organization").s>>
            \o (IF Has(item, "description")
                THEN <<"--description", Get(item, "description").s>> ELSE <<>>))

\* The member-add commands of a team record, one per member, in list order
TeamMemberAdds(item) ==
    [i \in 1..Len(Get(item, "members").l) |->
        Command("teams", "members",
                <<"--team", Get(item, "name").s,
                  "--organization", Get(item, "organization").s,
                  "add", "--member", Get(item, "members").l[i]>>)]

\* C17: a team record with members m1..mn is synthesized into one team-create
\* command carrying the name, the organization and the description and never
\* the members, and n member-add commands in list order, each with the team,
\* the organization and one member; a team without members gives the create
\* command alone; on dispatch the create command is sent before any
\* member-add, the member-adds following in list order.
C17_TeamCommands ==
    \A r \in 1..Len(parsed) :
        Work[r].block = "teams" =>
            /\ parsed[r].cmd = TeamCreate(ItemOfRec(r))
            /\ "--members" \notin Range(parsed[r].cmd.args)
            /\ Range(Get(ItemOfRec(r), "members").l) \cap Range(parsed[r].cmd.args) = {}
            /\ parsed[r].members = TeamMemberAdds(ItemOfRec(r))
            /\ IsPrefix(SpCallsOf(r), <<TeamCreate(ItemOfRec(r))>> \o TeamMemberAdds(ItemOfRec(r)))

\* A team with two members was created and both members were added
C17_Witness ==
    \E r \in 1..Len(parsed) :
        /\ Work[r].block = "teams"
        /\ Len(Get(ItemOfRec(r), "members").l) = 2
        /\ Len(SpCallsOf(r)) = 3
        /\ h >= r
        /\ error = NoError

-----------------------------------------------------------------------------
TypeBasedKinds == {"credentials", "compute-envs", "actions"}

\* C18: for a credential, compute-env or action record the attributes type,
\* config-mode and file-path that are present become the leading positional
\* arguments, in that order, of an add command, and are given by no flag: the
\* credential {type: aws, name: a} gives `add aws --name a`.
C18_TypePositional ==
    \A r \in 1..Len(parsed) :
        Work[r].block \in TypeBasedKinds =>
            /\ parsed[r].cmd.method = "add"
            /\ IsPrefix(Positionals(ItemOfRec(r), TypeBasedPriority), parsed[r].cmd.args)
            /\ Range(parsed[r].cmd.args) \cap {"--type", "--config-mode", "--file-path"} = {}

-----------------------------------------------------------------------------
DictKeys(d) == {d[i].k : i \in 1..Len(d)}

\* The params mapping record r states, <<>> when it states none
ParamsOf(r) == Get(ItemOfRec(r), "params").d

\* The records up to r whose params are written to a temporary document
WithParams(r) == {q \in 1..r : ParamsOf(q) # <<>>}

\* The document written for the params of the parsed record r
ParamsWritten(r) == temp_files[Cardinality(WithParams(r))].params

\* The positions of the dataset lookups made for record r
LookupsOf(r) == {i \in Idx : calls[i].op = "lookup" /\ calls[i].rec = r}

\* C19: when the params of a parsed record name a dataset and the lookup
\* returns a URL, the resolved mapping has no dataset key, has input set to
\* that URL and every other key as it was, and the mapping the record states
\* is left as it was; params without a dataset key are returned unchanged and
\* no lookup is made for them.
C19_DatasetResolution ==
    \A r \in 1..p :
        (Work[r].block = "launch" /\ ParamsOf(r) # <<>>) =>
            IF "dataset" \in DictKeys(ParamsOf(r))
            THEN /\ \E i \in LookupsOf(r) :
                       /\ LookupsOf(r) = {i}
                       /\ calls[i].ok
                       /\ calls[i].args = <<"-n", DictGet(ParamsOf(r), "dataset"),
                                            "-w", Get(ItemOfRec(r), "workspace").s>>
                 /\ DictKeys(ParamsWritten(r)) =
                       (DictKeys(ParamsOf(r)) \ {"dataset"}) \cup {"input"}
                 /\ DictGet(ParamsWritten(r), "input") = DatasetUrl
                 /\ \A k \in DictKeys(ParamsOf(r)) \ {"dataset", "input"} :
                       DictGet(ParamsWritten(r), k) = DictGet(ParamsOf(r), k)
                 /\ merged_data = file_paths[1]
            ELSE /\ LookupsOf(r) = {}
                 /\ ParamsWritten(r) = ParamsOf(r)

\* A record naming a dataset was parsed after one without a dataset key
C19_Witness ==
    /\ p = 2
    /\ Work[1].block = "launch"
    /\ ParamsOf(1) # <<>> /\ "dataset" \notin DictKeys(ParamsOf(1))
    /\ "dataset" \in DictKeys(ParamsOf(2))
    /\ DictGet(ParamsWritten(2), "input") = DatasetUrl

\* C20: when the lookup returns no URL the resolution fails with the dataset
\* resolution error and the run stops there: the failed lookup is the last
\* call of the run, its record is not parsed, and no command is dispatched and
\* no reconciliation made, for that record or any other.
C20_NoUrlAborts ==
    \A i \in Idx :
        (calls[i].op = "lookup" /\ ~calls[i].ok) =>
            /\ error = "DatasetResolutionError"
            /\ pc = "failed"
            /\ i = Len(calls)
            /\ p = calls[i].rec - 1
            /\ calls[i].args[2] = DictGet(ParamsOf(calls[i].rec), "dataset")
            /\ \A j \in Idx : calls[j].op = "lookup"

\* The lookup for the second record found no URL, the first being resolved
C20_Witness ==
    /\ Len(calls) = 2
    /\ calls[1].op = "lookup" /\ calls[1].ok
    /\ calls[2].op = "lookup" /\ ~calls[2].ok
    /\ error = "DatasetResolutionError"

-----------------------------------------------------------------------------
\* The kinds of the merged document the run is to process: those named in the
\* targets when targets are given, all of them otherwise, that are in order
Selected(order) ==
    {b \in Keys : (targets = {} \/ b \in targets) /\ b \in Range(order)}

\* The kinds for which a call was made
Touched == {calls[i].block : i \in Idx}

\* C21: with a targets filter exactly the kinds both present in the merged
\* document and named in the targets are processed, in the fixed kind order
\* (the creation order, or the destroy order in a destroy run); a kind not
\* named in the targets is never parsed, validated, reconciled or dispatched;
\* with no targets every known kind present is processed.
C21_Targets ==
    pc # "merge" =>
        LET order == IF destroy THEN DestroyOrder ELSE CreationOrder
        IN  /\ {Work[i].block : i \in 1..Len(Work)} = Selected(order)
            /\ \A i, j \in 1..Len(Work) :
                  i < j => Pos(order, Work[i].block) <= Pos(order, Work[j].block)
            /\ Touched \subseteq Selected(order)
            /\ pc = "done" => Touched = Selected(order)

\* A run with targets that completed, having processed the kind named and left
\* alone a kind of the document that was not
C21_Witness ==
    /\ pc = "done"
    /\ targets # {}
    /\ Touched # {}
    /\ Keys \ targets # {}
    /\ \E b \in Keys \ targets : ItemsOf(merged_data, b) = << <<S("name", "a")>> >>

-----------------------------------------------------------------------------
\* C22: a record whose on_exists value is not one of fail, ignore, overwrite
\* in some letter case is a fatal error, raised before any external call for
\* the record: such a record is never among the parsed ones and no call is
\* ever made for it.
C22_InvalidPolicyFatal ==
    \A r \in 1..Len(Work) :
        ( /\ pc # "merge"
          /\ Has(ItemOfRec(r), "on_exists")
          /\ Upper(Get(ItemOfRec(r), "on_exists").s) \notin OnExists )
        => /\ p < r
           /\ \A i \in Idx : calls[i].rec # r

-----------------------------------------------------------------------------
\* C23: in a create run with the deprecated global overwrite flag set, every
\* record handled is reconciled once, with the policy Overwrite whatever its
\* own on_exists / overwrite attributes say when no global on-exists policy
\* is given, and with the global on-exists policy when one is given.
C23_OverwriteFlag ==
    (overwrite /\ ~destroy /\ ~dryrun) =>
        /\ \A i \in Reconciliations :
              calls[i].on_exists =
                 IF global_on_exists = NoneStr THEN "OVERWRITE" ELSE global_on_exists
        /\ \A r \in 1..h :
              Cardinality({i \in Reconciliations : calls[i].rec = r}) = 1

\* Under the flag alone a record that asks for Ignore was reconciled with
\* Overwrite
C23_Witness ==
    /\ overwrite
    /\ global_on_exists = NoneStr
    /\ \E i \in Reconciliations :
          /\ parsed[calls[i].rec].on_exists = "IGNORE"
          /\ calls[i].on_exists = "OVERWRITE"

-----------------------------------------------------------------------------
\* C24: in a create run that is not a dry run the synthesis of a record, its
\* dataset lookup included, happens only after every record of every earlier
\* kind has been dispatched: each lookup made for a record comes after a
\* dispatch for each record of an earlier kind.
C24_SynthesisAfterEarlierKinds ==
    (~destroy /\ ~dryrun) =>
        \A i \in Idx :
            calls[i].op = "lookup" =>
                \A r \in 1..(calls[i].rec - 1) :
                    Work[r].block # calls[i].block =>
                        \E j \in 1..(i - 1) : calls[j].op = "sp" /\ calls[j].rec = r

-----------------------------------------------------------------------------
\* The positions of the token in the arguments
Places(args, tok) == {i \in 1..Len(args) : args[i] = tok}

\* The mapping to be written for record r: its params, with the dataset
\* reference resolved when it has a workspace
Resolved(r) ==
    IF Has(ItemOfRec(r), "workspace") /\ "dataset" \in DictKeys(ParamsOf(r))
    THEN DictDel(DictSet(ParamsOf(r), "input", DatasetUrl), "dataset")
    ELSE ParamsOf(r)

\* The command of the parsed record r has one --params-file flag, whose value
\* is the given path
ParamsFileIs(r, path) ==
    \E i \in Places(parsed[r].cmd.args, "--params-file") :
        /\ Places(parsed[r].cmd.args, "--params-file") = {i}
        /\ i < Len(parsed[r].cmd.args)
        /\ parsed[r].cmd.args[i + 1] = path

\* C25: for a pipeline or launch record with an inline params mapping the
\* command carries a --params-file flag naming a newly written document that
\* holds the (possibly dataset-resolved) mapping; with no inline mapping (an
\* empty one is read as none) an explicit params-file is passed through
\* unchanged and no document is written; in every case the command has at
\* most one --params-file flag and no --params flag.
C25_ParamsFile ==
    \A r \in 1..Len(parsed) :
        /\ Cardinality(Places(parsed[r].cmd.args, "--params-file")) <= 1
        /\ Places(parsed[r].cmd.args, "--params") = {}
        /\ IF ParamsOf(r) # <<>>
           THEN /\ ParamsFileIs(r, TempName(Cardinality(WithParams(r))))
                /\ ParamsWritten(r) = Resolved(r)
           ELSE /\ Len(temp_files) = Cardinality(WithParams(r))
                /\ IF Has(ItemOfRec(r), "params-file")
                   THEN ParamsFileIs(r, Get(ItemOfRec(r), "params-file").s)
                   ELSE Places(parsed[r].cmd.args, "--params-file") = {}

-----------------------------------------------------------------------------
\* The attributes the specification requires of a dataset record
DatasetRequired == {"file-path", "name", "workspace", "description"}

\* The command the specification gives a dataset record with all of them
DatasetArgs(item) ==
    <<Get(item, "file-path").s, "--name", Get(item, "name").s,
      "--workspace", Get(item, "workspace").s,
      "--description", Get(item, "description").s>>
    \o (IF Get(item, "header").t = "bool" /\ Get(item, "header").b
        THEN <<"--header">> ELSE <<>>)

\* C26: a dataset record is parsed only when it has file-path, name,
\* workspace and description, and its command then has the file path as the
\* sole leading positional, followed by --name, --workspace and --description
\* and a bare --header when header is true.
C26_DatasetCommand ==
    \A r \in 1..Len(parsed) :
        Work[r].block = "datasets" =>
            /\ \A k \in DatasetRequired : Has(ItemOfRec(r), k)
            /\ parsed[r].cmd.args = DatasetArgs(ItemOfRec(r))

-----------------------------------------------------------------------------
\* C27: a launch record is dispatched with no sub-operation verb: the launch
\* operation of the executor receives the pipeline positional first, followed
\* by the flags, never a leading add or import token.
C27_LaunchNoVerb ==
    \A i \in Idx :
        (calls[i].op = "sp" /\ calls[i].block = "launch") =>
            /\ calls[i].sub = "launch"
            /\ Received(calls[i]) # <<>>
            /\ Received(calls[i])[1] = Get(ItemOfRec(calls[i].rec), "pipeline").s
            /\ Received(calls[i])[1] \notin {"add", "import"}

-----------------------------------------------------------------------------
\* The kind's model declares the attribute
Declared(block, k) == \E f \in Range(MODEL_MAP(block)) : f.k = k

\* The flag of the attribute is in the arguments, followed by the value
FlagWith(args, k, v) ==
    \E i \in Places(args, Flag(k)) : i < Len(args) /\ args[i + 1] = v

\* The tokens of attribute a of a record of the kind, as the generic mapping
\* gives them for the attributes the kind declares
MappedAs(block, a, args) ==
    CASE ~Declared(block, a.k)  -> Flag(a.k) \notin Range(args)
      [] a.t = "str"            -> FlagWith(args, a.k, a.s)
      [] a.t = "int"            -> FlagWith(args, a.k, IntStr(a.n))
      [] a.t = "bool" /\ a.b    -> Flag(a.k) \in Range(args)
      [] a.t \in {"bool", "null"} -> Flag(a.k) \notin Range(args)
      [] OTHER                  -> FALSE

\* The records of the kinds with the generic mapping
GenericRecs(n) == {r \in 1..n : Work[r].block \in GenericKinds}

HasRequired(block, item) ==
    \A f \in Range(MODEL_MAP(block)) : f.req => Get(item, f.k).t # "null"

\* The tokens of attribute a, as stated for every attribute
StatedAs(a, args) ==
    CASE a.t = "str"            -> FlagWith(args, a.k, a.s)
      [] a.t = "int"            -> FlagWith(args, a.k, IntStr(a.n))
      [] a.t = "list"           -> FlagWith(args, a.k, Join(a.l, ","))
      [] a.t = "bool" /\ a.b    -> Flag(a.k) \in Range(args)
      [] OTHER                  -> Flag(a.k) \notin Range(args)

-----------------------------------------------------------------------------
\* Record r states none of the identifying attributes, so that its command has
\* no --name, --user or --email token
Nameless(r) == \A k \in {"name", "user", "email"} : ~Has(ItemOfRec(r), k)

\* The records of the kind of record r before it that are nameless too
NamelessBefore(r) == {q \in 1..(r - 1) : Work[q].block = Work[r].block /\ Nameless(q)}

\* C29: the missing identifying value counts as a value in the duplicate
\* test: parsing never gets past a second record of a kind without a --name,
\* --user or --email token, and when the command of that second record is
\* synthesized the run fails there with the duplicate-name error; a nameless
\* record not preceded by another one of its kind is no duplicate.
C29_NamelessDuplicate ==
    pc # "merge" =>
        /\ \A r \in 1..p : Nameless(r) => NamelessBefore(r) = {}
        /\ (pc = "failed" /\ p < Len(Work) /\ Nameless(p + 1)) =>
              IF NamelessBefore(p + 1) = {}
              THEN error # "DuplicateName"
              ELSE error \in {"DuplicateName", "DatasetResolutionError"}

\* A second launch record without a name, refused as a duplicate of the first
C29_Witness ==
    /\ error = "DuplicateName"
    /\ p = 1
    /\ Work[1].block = "launch" /\ Work[2].block = "launch"
    /\ Nameless(1) /\ Nameless(2)
    /\ find_name(parsed[1].cmd.args) = NoneStr

-----------------------------------------------------------------------------
\* The arguments without the --role flag and the value after it
MinusRole(args) ==
    IF Places(args, "--role") = {} THEN args
    ELSE LET i == CHOOSE j \in Places(args, "--role") : TRUE
         IN  SubSeq(args, 1, i - 1) \o SubSeq(args, i + 2, Len(args))

\* The calls made on the client for record r, in order
SpEntriesOf(r) == SelectSeq(calls, LAMBDA c : c.op = "sp" /\ c.rec = r)

\* C30: the dispatch of a participant record issues two executor calls, in
\* this order: participants add with the synthesized arguments minus --role
\* and its value, then participants update with the full arguments; the
\* update is issued only if the add did not fail.
C30_ParticipantDispatch ==
    \A r \in 1..Len(parsed) :
        Work[r].block = "participants" =>
            /\ Len(SpEntriesOf(r)) \in {0, 1, 2}
            /\ Len(SpEntriesOf(r)) >= 1 =>
                  /\ SpEntriesOf(r)[1].sub = "participants"
                  /\ SpEntriesOf(r)[1].method = "add"
                  /\ SpEntriesOf(r)[1].args = MinusRole(parsed[r].cmd.args)
            /\ Len(SpEntriesOf(r)) = 1 => ~SpEntriesOf(r)[1].ok
            /\ Len(SpEntriesOf(r)) = 2 =>
                  /\ SpEntriesOf(r)[1].ok
                  /\ SpEntriesOf(r)[2].sub = "participants"
                  /\ SpEntriesOf(r)[2].method = "update"
                  /\ SpEntriesOf(r)[2].args = parsed[r].cmd.args

\* A participant with a role was added without it and then updated with it
C30_Witness ==
    /\ pc = "done"
    /\ \E r \in 1..Len(parsed) :
          /\ Work[r].block = "participants"
          /\ Get(ItemOfRec(r), "role").s = "admin"
          /\ Len(SpEntriesOf(r)) = 2
          /\ "--role" \notin Range(SpEntriesOf(r)[1].args)
          /\ FlagWith(SpEntriesOf(r)[2].args, "role", "admin")

====
